---- MODULE Spec2Model ----
\* A model of the O'Reilly transcript downloader: the page-side
\* TranscriptExtractor (src/extension/transcript-extractor.js) and the popup
\* that drives it (src/unnamed/part_000).
\*
\* Text is a sequence of one-character strings, so that trim(), join(),
\* split() and .length are computed, not assumed.  An optional value
\* (an omitted argument, a null field, a missing element) is a sequence of
\* length at most one: <<>> is undefined/null, <<x>> is x.
EXTENDS Integers, Sequences, FiniteSets, TLC

VARIABLES
    doc,        \* the live host document
    ret,        \* the most recent extractor call on the current document, and what it returned
    clipboard,  \* the system clipboard's text
    pending,    \* the clipboard writes in flight (promises not yet settled)
    liveURLs,   \* number of object URLs created and not revoked
    statusDiv,  \* the popup's #status element
    timers,     \* the popup's pending setTimeout callbacks: seconds left of each
    handlers,   \* the popup's click handlers in flight
    shownFor    \* seconds since showStatus last ran (capped at HideDelay)

vars == <<doc, ret, clipboard, pending, liveURLs, statusDiv, timers, handlers, shownFor>>

\* ---------------------------------------------------------------- bounds

\* The container holds at most MaxButtons child elements.
MaxButtons == 2
\* At most MaxLive leaked object URLs are tracked.
MaxLive == 2
\* At most MaxTimers hide timers of the popup are pending at once.
MaxTimers == 2

\* ------------------------------------------------------------------ text

\* The whitespace String.prototype.trim() strips and /\s/ matches (the members used here).
WhiteSpace == {" ", "\n", "\t"}

RECURSIVE TrimStart(_)
TrimStart(s) ==
    IF s # <<>> /\ Head(s) \in WhiteSpace THEN TrimStart(Tail(s)) ELSE s

RECURSIVE TrimEnd(_)
TrimEnd(s) ==
    IF s # <<>> /\ s[Len(s)] \in WhiteSpace THEN TrimEnd(SubSeq(s, 1, Len(s) - 1)) ELSE s

\* String.prototype.trim()
Trim(s) == TrimEnd(TrimStart(s))

\* Array.prototype.join(sep) on an array of strings
RECURSIVE Join(_, _)
Join(parts, sep) ==
    IF parts = <<>> THEN <<>>
    ELSE IF Len(parts) = 1 THEN parts[1]
    ELSE parts[1] \o sep \o Join(Tail(parts), sep)

\* A slip: the words counted, not the pieces (the empty string has none).
RECURSIVE SplitCountWords(_, _)
SplitCountWords(s, inRun) ==
    IF s = <<>> THEN 0
    ELSE IF Head(s) \in WhiteSpace THEN SplitCountWords(Tail(s), FALSE)
    ELSE (IF inRun THEN 0 ELSE 1) + SplitCountWords(Tail(s), TRUE)

\* s.split(/\s+/).length: a left-to-right scan; every maximal run of
\* whitespace ends one piece and starts the next, and the empty string is one piece.
RECURSIVE SplitCount(_, _)
SplitCount(s, inRun) ==
    IF s = <<>> THEN 1
    ELSE IF Head(s) \in WhiteSpace
         THEN (IF inRun THEN 0 ELSE 1) + SplitCount(Tail(s), TRUE)
         ELSE SplitCount(Tail(s), FALSE)

\* A default parameter value: used when the argument is undefined.
DefaultTo(arg, d) == IF arg = <<>> THEN d ELSE arg[1]

\* The texts of the example documents.
T_000001 == <<"0","0",":","0","0",":","0","1">>
T_000005 == <<"0","0",":","0","0",":","0","5">>
T_000007 == <<"0","0",":","0","0",":","0","7">>
T_000009 == <<"0","0",":","0","0",":","0","9">>
Hello == <<"H","e","l","l","o">>
World == <<"w","o","r","l","d">>

\* ------------------------------------------------- TranscriptExtractor

\* constructor(): the three fixed identifiers
transcriptBodySelector == "div[data-testid=\"transcript-body\"]"
timestampClass == "MuiTypography-uiBodySmall"
contentClass == "MuiTypography-uiBody"

\* The defaults of the parameters.
DefaultTextSeparator == <<" ">>
DefaultCopySeparator == <<"\n", "\n">>
DefaultDownloadSeparator == <<"\n", "\n">>
DefaultFilename == "transcript.txt"
\* `${entry.timestamp}: ${entry.content}`
TimestampGlue == <<":", " ">>
\* duration of an empty transcript
PlaceholderDuration == <<"0","0",":","0","0",":","0","0">>

\* ------------------------------------------------------- the document

\* A descendant of a candidate: its tag, its class list, its textContent.
El(tag, cls, text) == [tag |-> tag, classes |-> cls, text |-> text]

\* The children the host page puts into the container.  Each is an element
\* with its descendants in document order.
HelloButton ==
    [tag |-> "button",
     kids |-> << El("p", {timestampClass}, <<" ">> \o T_000001 \o <<" ">>),
                 El("p", {contentClass}, Hello) >>]
WorldButton ==
    [tag |-> "button",
     kids |-> << El("p", {contentClass, "MuiTypography-root"}, <<" ">> \o World \o <<"\n">>),
                 El("p", {timestampClass}, T_000005) >>]
\* the first match of each selector is the one read; here the content is empty
BlankButton ==
    [tag |-> "button",
     kids |-> << El("p", {timestampClass}, T_000007),
                 El("p", {contentClass}, <<"\t">>),
                 El("p", {contentClass}, <<"x">>) >>]
\* no content paragraph: the element carrying the content class is not a p
NoContentButton ==
    [tag |-> "button",
     kids |-> << El("p", {timestampClass}, T_000009),
                 El("span", {contentClass}, <<"x">>) >>]
\* no timestamp paragraph
NoTimestampButton ==
    [tag |-> "button",
     kids |-> << El("p", {contentClass}, <<"a", " ", " ", "b">>) >>]
\* both paragraphs, but not inside a button
PlainDiv ==
    [tag |-> "div",
     kids |-> << El("p", {timestampClass}, T_000001),
                 El("p", {contentClass}, <<"y">>) >>]

Children == {HelloButton, WorldButton, BlankButton, NoContentButton, NoTimestampButton, PlainDiv}

\* The document: whether the container element exists, whether document.body
\* exists, and the container's children in document order.
Document(container, body, children) ==
    [container |-> container, body |-> body, children |-> children]

\* element.querySelector(`${tag}.${cls}`): the first matching descendant, if any
RECURSIVE QuerySelector(_, _, _)
QuerySelector(kids, tag, cls) ==
    IF kids = <<>> THEN <<>>
    ELSE IF Head(kids).tag = tag /\ cls \in Head(kids).classes THEN <<Head(kids)>>
    ELSE QuerySelector(Tail(kids), tag, cls)

\* A slip: every child of the container taken as a candidate.
QuerySelectorAllElements(children) == children

\* transcriptBody.querySelectorAll('button')
RECURSIVE QuerySelectorAllButtons(_)
QuerySelectorAllButtons(children) ==
    IF children = <<>> THEN <<>>
    ELSE (IF Head(children).tag = "button" THEN <<Head(children)>> ELSE <<>>)
         \o QuerySelectorAllButtons(Tail(children))

\* buttons.forEach(button => ...) pushing onto transcriptEntries
RECURSIVE ForEachButton(_, _)
ForEachButton(buttons, transcriptEntries) ==
    IF buttons = <<>> THEN transcriptEntries
    ELSE LET timestampElement == QuerySelector(Head(buttons).kids, "p", timestampClass)
             contentElement == QuerySelector(Head(buttons).kids, "p", contentClass)
         IN ForEachButton(Tail(buttons),
                IF timestampElement # <<>> /\ contentElement # <<>>
                THEN Append(transcriptEntries,
                            [timestamp |-> Trim(timestampElement[1].text),
                             content |-> Trim(contentElement[1].text)])
                ELSE transcriptEntries)

\* extractTranscript()
ExtractTranscript(d) ==
    IF ~d.container THEN <<>>
    ELSE ForEachButton(QuerySelectorAllButtons(d.children), <<>>)

\* the console.warn of extractTranscript()
ExtractTranscriptLog(d) ==
    IF ~d.container THEN <<"Transcript body not found on this page">> ELSE <<>>

\* A slip: empty contents dropped from the projection.
ExtractContentOnlyNonEmpty(d) ==
    SelectSeq([i \in 1..Len(ExtractTranscript(d)) |-> ExtractTranscript(d)[i].content],
              LAMBDA c : c # <<>>)

\* extractContentOnly()
ExtractContentOnly(d) ==
    LET entries == ExtractTranscript(d)
    IN [i \in 1..Len(entries) |-> entries[i].content]

\* extractContentAsText(separator = ' ')
ExtractContentAsText(d, separator) ==
    LET content == ExtractContentOnly(d)
    IN Join(content, DefaultTo(separator, DefaultTextSeparator))

\* A slip: the includeTimestamps test inverted.
BuildTextInverted(entries, includeTimestamps, separator) ==
    IF ~includeTimestamps
    THEN Join([i \in 1..Len(entries) |->
                   entries[i].timestamp \o TimestampGlue \o entries[i].content], separator)
    ELSE Join([i \in 1..Len(entries) |-> entries[i].content], separator)

\* the text copyToClipboard and downloadTranscript build from the entries
BuildText(entries, includeTimestamps, separator) ==
    IF includeTimestamps
    THEN Join([i \in 1..Len(entries) |->
                   entries[i].timestamp \o TimestampGlue \o entries[i].content], separator)
    ELSE Join([i \in 1..Len(entries) |-> entries[i].content], separator)

\* getSummary()
GetSummary(d) ==
    LET entries == ExtractTranscript(d)
        content == ExtractContentAsText(d, <<>>)
    IN [totalEntries |-> Len(entries),
        totalCharacters |-> Len(content),
        totalWords |-> SplitCount(content, FALSE),
        duration |-> IF Len(entries) > 0 THEN entries[Len(entries)].timestamp
                     ELSE PlaceholderDuration,
        firstTimestamp |-> IF Len(entries) > 0 THEN <<entries[1].timestamp>> ELSE <<>>,
        lastTimestamp |-> IF Len(entries) > 0 THEN <<entries[Len(entries)].timestamp>> ELSE <<>>]

\* A slip: no early return on zero entries.
DownloadTranscriptUnguarded(d, filename, includeTimestamps, separator) ==
    LET entries == ExtractTranscript(d)
        content == BuildText(entries, includeTimestamps,
                             DefaultTo(separator, DefaultDownloadSeparator))
        none == [outcome |-> "returned", log |-> "",
                 blobs |-> 1, created |-> 1, revoked |-> 0,
                 appended |-> 0, removed |-> 0, clicks |-> 0, saved |-> <<>>]
    IN IF ~d.body THEN [none EXCEPT !.outcome = "threw"]
       ELSE [none EXCEPT !.log = "Downloaded transcript",
                         !.appended = 1, !.clicks = 1, !.removed = 1, !.revoked = 1,
                         !.saved = << [filename |-> DefaultTo(filename, DefaultFilename),
                                       type |-> "text/plain",
                                       content |-> content] >>]

\* downloadTranscript(filename = 'transcript.txt', includeTimestamps = false,
\* separator = '\n\n'): what one call does, statement by statement.  The call
\* has no try/finally: a statement that throws ends it there.
\* document.body.appendChild(a) throws a TypeError when document.body is null.
DownloadTranscript(d, filename, includeTimestamps, separator) ==
    LET entries == ExtractTranscript(d)
        content == BuildText(entries, includeTimestamps,
                             DefaultTo(separator, DefaultDownloadSeparator))
        none == [outcome |-> "returned", log |-> "No transcript content found",
                 blobs |-> 0, created |-> 0, revoked |-> 0,
                 appended |-> 0, removed |-> 0, clicks |-> 0, saved |-> <<>>]
    IN IF Len(entries) = 0 THEN none
       ELSE IF ~d.body
       THEN [none EXCEPT !.outcome = "threw", !.log = "",
                         !.blobs = 1, !.created = 1]
       ELSE [none EXCEPT !.log = "Downloaded transcript",
                         !.blobs = 1, !.created = 1, !.appended = 1, !.clicks = 1,
                         !.removed = 1, !.revoked = 1,
                         !.saved = << [filename |-> DefaultTo(filename, DefaultFilename),
                                       type |-> "text/plain",
                                       content |-> content] >>]

\* A slip: no catch block, the rejection reaches the caller.
CopyToClipboardNoCatch(r) ==
    [r EXCEPT !.settled = "rejected"]

\* copyToClipboard(includeTimestamps = false, separator = '\n\n'), from its
\* entry to the await: either it has settled (zero entries, or the call of
\* writeText threw because navigator.clipboard is undefined and the catch
\* block ran), or writeText was called with the text and the promise is awaited.
CopyToClipboardCatch(r) ==
    [r EXCEPT !.settled = "fulfilled", !.value = <<FALSE>>,
              !.log = "Failed to copy to clipboard:"]

\* A slip: no early return on zero entries, the empty text is written.
CopyToClipboardCallUnguarded(d, includeTimestamps, separator, clipboardAPI) ==
    LET entries == ExtractTranscript(d)
        textToCopy == BuildText(entries, includeTimestamps,
                                DefaultTo(separator, DefaultCopySeparator))
        r == [settled |-> "pending", value |-> <<>>, writeText |-> <<>>,
              write |-> "none", log |-> ""]
    IN IF ~clipboardAPI
       THEN CopyToClipboardCatch([r EXCEPT !.write = "threw"])
       ELSE [r EXCEPT !.writeText = <<textToCopy>>, !.write = "pending"]

CopyToClipboardCall(d, includeTimestamps, separator, clipboardAPI) ==
    LET entries == ExtractTranscript(d)
        textToCopy == BuildText(entries, includeTimestamps,
                                DefaultTo(separator, DefaultCopySeparator))
        r == [settled |-> "pending", value |-> <<>>, writeText |-> <<>>,
              write |-> "none", log |-> ""]
    IN IF Len(entries) = 0
       THEN [r EXCEPT !.settled = "fulfilled", !.value = <<FALSE>>,
                      !.log = "No transcript content found"]
       ELSE IF ~clipboardAPI
       THEN CopyToClipboardCatch([r EXCEPT !.write = "threw"])
       ELSE [r EXCEPT !.writeText = <<textToCopy>>, !.write = "pending"]

\* copyToClipboard after the await, when writeText's promise was fulfilled
CopyToClipboardResume(r) ==
    [r EXCEPT !.settled = "fulfilled", !.value = <<TRUE>>, !.write = "fulfilled",
              !.log = "Copied transcript entries to clipboard"]

\* copyToClipboard after the await, when writeText's promise was rejected
CopyToClipboardRejected(r) ==
    CopyToClipboardCatch([r EXCEPT !.write = "rejected"])


\* ------------------------------------------------- arguments of the calls

\* separator: omitted, ' ' or '\n\n'
SeparatorArgs == {<<>>, << <<" ">> >>, << <<"\n", "\n">> >>}
\* filename: omitted or 'notes.txt'
FilenameArgs == {<<>>, <<"notes.txt">>}

\* No call has returned on the current document.
NoCall == [op |-> "none"]
\* the popup's buttons
Buttons == {"extractBtn", "copyBtn", "downloadBtn", "summaryBtn"}
\* No click handler is running, nothing is shown.
NoHandlers == [btn \in Buttons |-> "idle"]
HiddenStatus == [textContent |-> "", className |-> "", display |-> "none"]

\* --------------------------------------------------------------- the page

\* A page without the transcript container; no extractor call made yet.
Init ==
    /\ doc = Document(FALSE, TRUE, <<>>)
    /\ ret = NoCall
    /\ clipboard = <<>>
    /\ pending = <<>>
    /\ liveURLs = 0
    /\ statusDiv = HiddenStatus
    /\ timers = <<>>
    /\ handlers = NoHandlers
    /\ shownFor = 0

popupVars == <<statusDiv, timers, handlers, shownFor>>

\* The host page changes the document; what an earlier call returned is
\* no longer a result on the current document.
Mutate(d) ==
    /\ doc' = d
    /\ ret' = NoCall
    /\ UNCHANGED <<clipboard, pending, liveURLs, popupVars>>

\* the host page inserts the container element
AddContainer ==
    /\ ~doc.container
    /\ Mutate([doc EXCEPT !.container = TRUE, !.children = <<>>])

\* the host page removes the container element, with its subtree
RemoveContainer ==
    /\ doc.container
    /\ Mutate([doc EXCEPT !.container = FALSE, !.children = <<>>])

\* the host page appends a child to the container
AppendChild ==
    /\ doc.container
    /\ Len(doc.children) < MaxButtons
    /\ \E c \in Children : Mutate([doc EXCEPT !.children = Append(@, c)])

\* the host page removes a child of the container
RemoveChild ==
    /\ doc.container
    /\ \E i \in 1..Len(doc.children) :
          Mutate([doc EXCEPT !.children =
                      SubSeq(@, 1, i - 1) \o SubSeq(@, i + 1, Len(@))])

\* the host page removes or restores document.body
SetBody ==
    Mutate([doc EXCEPT !.body = ~@])

\* A synchronous call returns: no effect but its value.
Return(op, args, value) ==
    /\ ret' = [op |-> op, args |-> args, value |-> value]
    /\ UNCHANGED <<doc, clipboard, pending, liveURLs, popupVars>>

\* new TranscriptExtractor().extractTranscript()
CallExtractTranscript ==
    Return("extractTranscript", <<>>, ExtractTranscript(doc))

\* new TranscriptExtractor().extractContentOnly()
CallExtractContentOnly ==
    Return("extractContentOnly", <<>>, ExtractContentOnly(doc))

\* new TranscriptExtractor().extractContentAsText(separator)
CallExtractContentAsText ==
    \E separator \in SeparatorArgs :
        Return("extractContentAsText", <<separator>>, ExtractContentAsText(doc, separator))

\* new TranscriptExtractor().getSummary()
CallGetSummary ==
    Return("getSummary", <<>>, GetSummary(doc))

\* new TranscriptExtractor().downloadTranscript(filename, includeTimestamps, separator)
CallDownloadTranscript ==
    \E filename \in FilenameArgs, includeTimestamps \in BOOLEAN, separator \in SeparatorArgs :
        LET r == DownloadTranscript(doc, filename, includeTimestamps, separator)
        IN /\ liveURLs + r.created - r.revoked <= MaxLive
           /\ liveURLs' = liveURLs + r.created - r.revoked
           /\ ret' = [op |-> "downloadTranscript",
                      args |-> <<filename, includeTimestamps, separator>>,
                      value |-> r]
           /\ UNCHANGED <<doc, clipboard, pending, popupVars>>

Next ==
    \/ AddContainer
    \/ RemoveContainer
    \/ AppendChild
    \/ RemoveChild
    \/ SetBody
    \/ CallExtractTranscript
    \/ CallExtractContentOnly
    \/ CallExtractContentAsText
    \/ CallGetSummary
    \/ CallDownloadTranscript

Spec == Init /\ [][Next]_vars

\* ------------------------------------------------------------ reference

\* a candidate: an interactive element of the container
IsCandidate(c) == c.tag = "button"
\* the positions of the paragraphs of c carrying class cls
Paragraphs(c, cls) ==
    {k \in 1..Len(c.kids) : c.kids[k].tag = "p" /\ cls \in c.kids[k].classes}
\* a well-formed candidate has a timestamp paragraph and a content paragraph
WellFormed(c) ==
    IsCandidate(c) /\ Paragraphs(c, timestampClass) # {} /\ Paragraphs(c, contentClass) # {}
\* a malformed candidate misses one of the two
Malformed(c) == IsCandidate(c) /\ ~WellFormed(c)
Min(S) == CHOOSE x \in S : \A y \in S : x <= y
Max(S) == CHOOSE x \in S : \A y \in S : x >= y
\* s without its leading and trailing whitespace, by positions
Trimmed(s) ==
    LET ink == {k \in 1..Len(s) : s[k] \notin WhiteSpace}
    IN IF ink = {} THEN <<>> ELSE SubSeq(s, Min(ink), Max(ink))
\* the entry of a well-formed candidate
EntryOf(c) ==
    [timestamp |-> Trimmed(c.kids[Min(Paragraphs(c, timestampClass))].text),
     content |-> Trimmed(c.kids[Min(Paragraphs(c, contentClass))].text)]
\* the well-formed candidates of the container, in document order
WellFormedOf(d) == SelectSeq(d.children, WellFormed)
MalformedOf(d) == SelectSeq(d.children, Malformed)
\* the document yields zero entries: no container, or no well-formed candidate in it
ZeroEntries(d) == ~d.container \/ Len(WellFormedOf(d)) = 0

\* C1: after extractTranscript() on a document with the container, the value
\* returned has exactly one entry per well-formed candidate, in the document
\* order of those candidates, each with the trimmed timestamp and content;
\* malformed candidates and non-candidates contribute nothing.
C1_ExtractWellFormedInOrder ==
    (ret.op = "extractTranscript" /\ doc.container) =>
        /\ Len(ret.value) = Len(WellFormedOf(doc))
        /\ \A i \in 1..Len(ret.value) : ret.value[i] = EntryOf(WellFormedOf(doc)[i])

\* C1 case: a malformed candidate before a well-formed one whose timestamp is padded
C1_Witness ==
    /\ ret.op = "extractTranscript"
    /\ doc.container
    /\ doc.children = <<NoTimestampButton, HelloButton>>
    /\ ret.value = <<[timestamp |-> T_000001, content |-> Hello]>>

\* C5: once downloadTranscript has exited, no object URL it created is left unrevoked.
C5_AllObjectURLsRevoked ==
    /\ liveURLs = 0
    /\ ret.op = "downloadTranscript" => ret.value.created = ret.value.revoked

\* C6: downloadTranscript on a document with zero entries creates no blob and
\* no object URL, adds no anchor, dispatches no click and saves no file; it
\* returns after the diagnostic.
C6_DownloadNoEntriesNoEffect ==
    (ret.op = "downloadTranscript" /\ ZeroEntries(doc)) =>
        /\ ret.value.outcome = "returned"
        /\ ret.value.log = "No transcript content found"
        /\ ret.value.blobs = 0
        /\ ret.value.created = 0
        /\ ret.value.appended = 0
        /\ ret.value.clicks = 0
        /\ ret.value.saved = <<>>

\* C6 case: the container holds candidates, all malformed
C6_Witness ==
    /\ ret.op = "downloadTranscript"
    /\ doc.container
    /\ Len(MalformedOf(doc)) >= 1
    /\ Len(WellFormedOf(doc)) = 0

\* the sum of the lengths of the texts of a sequence
RECURSIVE SumLen(_)
SumLen(parts) == IF parts = <<>> THEN 0 ELSE Len(Head(parts)) + SumLen(Tail(parts))
\* the pieces of s between runs of whitespace: one more than the runs
Pieces(s) ==
    1 + Cardinality({k \in 1..Len(s) :
                        s[k] \in WhiteSpace /\ (k = 1 \/ s[k - 1] \notin WhiteSpace)})
\* the aggregate over the entries of one snapshot
SummaryOf(entries) ==
    LET n == Len(entries)
        contents == [i \in 1..n |-> entries[i].content]
    IN [totalEntries |-> n,
        totalCharacters |-> SumLen(contents) + (IF n > 1 THEN n - 1 ELSE 0),
        totalWords |-> Pieces(Join(contents, <<" ">>)),
        duration |-> IF n = 0 THEN PlaceholderDuration ELSE entries[n].timestamp,
        firstTimestamp |-> IF n = 0 THEN <<>> ELSE <<entries[1].timestamp>>,
        lastTimestamp |-> IF n = 0 THEN <<>> ELSE <<entries[n].timestamp>>]

\* C7: getSummary() is the aggregate over the entries of the document; for
\* zero entries it is 0, 0, 1 word, "00:00:00", null, null; for the
\* Hello/world document it has 2 words and duration "00:00:05".
C7_SummaryIsAggregate ==
    ret.op = "getSummary" =>
        /\ ret.value = SummaryOf([i \in 1..Len(WellFormedOf(doc)) |-> EntryOf(WellFormedOf(doc)[i])])
        /\ ret.value.lastTimestamp = (IF ret.value.totalEntries = 0 THEN <<>> ELSE <<ret.value.duration>>)
        /\ ZeroEntries(doc) =>
              ret.value = [totalEntries |-> 0, totalCharacters |-> 0, totalWords |-> 1,
                           duration |-> <<"0","0",":","0","0",":","0","0">>,
                           firstTimestamp |-> <<>>, lastTimestamp |-> <<>>]
        /\ (doc.container /\ doc.children = <<HelloButton, WorldButton>>) =>
              /\ ret.value.totalWords = 2
              /\ ret.value.duration = <<"0","0",":","0","0",":","0","5">>
              /\ ret.value.totalCharacters = 11

\* C7 case: the two-entry document of the scenario
C7_Witness ==
    /\ ret.op = "getSummary"
    /\ doc.container
    /\ doc.children = <<HelloButton, WorldButton>>
    /\ ret.value.totalEntries = 2

\* C9: extractContentOnly() on the current document has the length and the
\* order of extractTranscript() on it, each element that entry's content.
C9_ContentOnlyIsProjection ==
    ret.op = "extractContentOnly" =>
        /\ Len(ret.value) = Len(ExtractTranscript(doc))
        /\ \A i \in 1..Len(ExtractTranscript(doc)) :
              ret.value[i] = ExtractTranscript(doc)[i].content

\* C9 case: two entries, the first with an empty content
C9_Witness ==
    /\ ret.op = "extractContentOnly"
    /\ Len(ret.value) = 2
    /\ ret.value[1] = <<>>
    /\ ret.value[2] # <<>>

\* ------------------------------------------------ the page, copying

\* the children sequences a container can hold
ChildSeqs == UNION {[1..n -> Children] : n \in 0..MaxButtons}

\* Any page: without the container, or with it and any children.
InitCopy ==
    /\ doc \in {Document(FALSE, TRUE, <<>>)} \cup {Document(TRUE, TRUE, cs) : cs \in ChildSeqs}
    /\ ret = NoCall
    /\ clipboard = <<>>
    /\ pending = <<>>
    /\ liveURLs = 0
    /\ statusDiv = HiddenStatus
    /\ timers = <<>>
    /\ handlers = NoHandlers
    /\ shownFor = 0

\* new TranscriptExtractor().copyToClipboard(includeTimestamps, separator),
\* up to the await; one call at a time.  navigator.clipboard is undefined in
\* an insecure context.
CallCopyToClipboard ==
    /\ pending = <<>>
    /\ \E includeTimestamps \in BOOLEAN, separator \in SeparatorArgs, clipboardAPI \in BOOLEAN :
          LET r == CopyToClipboardCall(doc, includeTimestamps, separator, clipboardAPI)
              call == [op |-> "copyToClipboard", phase |-> "call",
                       args |-> <<includeTimestamps, separator>>, value |-> r]
          IN /\ ret' = call
             /\ pending' = IF r.settled = "pending" THEN <<call>> ELSE <<>>
    /\ UNCHANGED <<doc, clipboard, liveURLs, popupVars>>

\* the platform writes the text and fulfils writeText's promise
WriteTextFulfilled ==
    /\ pending # <<>>
    /\ clipboard' = pending[1].value.writeText[1]
    /\ ret' = [pending[1] EXCEPT !.phase = "settle", !.value = CopyToClipboardResume(@)]
    /\ pending' = <<>>
    /\ UNCHANGED <<doc, liveURLs, popupVars>>

\* the platform denies or fails the write and rejects writeText's promise
WriteTextRejected ==
    /\ pending # <<>>
    /\ ret' = [pending[1] EXCEPT !.phase = "settle", !.value = CopyToClipboardRejected(@)]
    /\ pending' = <<>>
    /\ UNCHANGED <<doc, clipboard, liveURLs, popupVars>>

NextCopy ==
    \/ AddContainer
    \/ RemoveContainer
    \/ CallCopyToClipboard
    \/ WriteTextFulfilled
    \/ WriteTextRejected

SpecCopy == InitCopy /\ [][NextCopy]_vars

\* C2: a copyToClipboard call on a document with zero entries settles at once
\* with false, calls writeText not at all and leaves the clipboard as it was,
\* whatever includeTimestamps and separator are.
C2_CopyNoEntriesNoWrite ==
    [][(ret'.op = "copyToClipboard" /\ ret'.phase = "call" /\ ZeroEntries(doc')) =>
          /\ ret'.value.settled = "fulfilled"
          /\ ret'.value.value = <<FALSE>>
          /\ ret'.value.writeText = <<>>
          /\ ret'.value.write = "none"
          /\ pending' = <<>>
          /\ clipboard' = clipboard]_vars

\* C2 case: the container is gone, the clipboard holds an earlier copy
C2_Witness ==
    /\ ret.op = "copyToClipboard"
    /\ ret.phase = "call"
    /\ ~doc.container
    /\ ret.args[1]
    /\ clipboard # <<>>

\* C3: copyToClipboard's promise is never rejected; a write that throws or
\* is rejected makes it false; it is true only when writeText was called and
\* fulfilled, and the clipboard then holds the text passed.
C3_CopyNeverRejects ==
    ret.op = "copyToClipboard" =>
        /\ ret.value.settled \in {"pending", "fulfilled"}
        /\ ret.value.write \in {"threw", "rejected"} =>
              (ret.value.settled = "fulfilled" /\ ret.value.value = <<FALSE>>)
        /\ ret.value.value = <<TRUE>> =>
              /\ ret.value.settled = "fulfilled"
              /\ ret.value.write = "fulfilled"
              /\ ret.value.writeText # <<>>
              /\ clipboard = ret.value.writeText[1]
        /\ ret.value.settled = "pending" => (ret.value.write = "pending" /\ pending # <<>>)

\* C3 case: the platform rejected the write
C3_Witness ==
    /\ ret.op = "copyToClipboard"
    /\ ret.value.write = "rejected"
    /\ ret.value.value = <<FALSE>>

\* C4 as stated: for every document and separator, copyToClipboard(false, sep)
\* writes extractContentAsText(sep): once the call has settled the clipboard holds it.
C4_CopyWritesContentAsText ==
    (ret.op = "copyToClipboard" /\ ~ret.args[1] /\ ret.phase = "call"
        /\ ret.value.write # "threw") =>
        ret.value.writeText = <<ExtractContentAsText(doc, ret.args[2])>>

\* C4 amended: when the document has at least one entry and the separator is
\* given, the text copyToClipboard(false, sep) passes to writeText is
\* extractContentAsText(sep) on that document, and it is what the clipboard
\* holds once the write is fulfilled.
C4_CopyWritesContentAsTextAmended ==
    /\ (ret.op = "copyToClipboard" /\ ~ret.args[1] /\ ret.args[2] # <<>> /\ ret.phase = "call"
            /\ ~ZeroEntries(doc) /\ ret.value.write = "pending") =>
          ret.value.writeText = <<ExtractContentAsText(doc, ret.args[2])>>
    /\ (ret.op = "copyToClipboard" /\ ret.value.write = "fulfilled") =>
          clipboard = ret.value.writeText[1]

\* C4 case: two entries joined by a given separator that is not the default of either function
C4_Witness ==
    /\ ret.op = "copyToClipboard"
    /\ ~ret.args[1]
    /\ ret.args[2] = << <<"\n", "\n">> >>
    /\ ret.phase = "call"
    /\ ret.value.write = "pending"
    /\ Len(WellFormedOf(doc)) = 2

\* -------------------------------------------------------------- the popup

\* setTimeout(..., 3000), in seconds
HideDelay == 3

\* what each handler's catch block puts before error.message
ErrorPrefix(btn) ==
    CASE btn = "extractBtn" -> "Error extracting transcript: "
      [] btn = "copyBtn" -> "Error copying content: "
      [] btn = "downloadBtn" -> "Error downloading transcript: "
      [] btn = "summaryBtn" -> "Error getting summary: "

\* the (message, isError) each handler passes to showStatus for the result of
\* the injected call
Notice(message, isError) == [message |-> message, isError |-> isError]

ExtractNotice(entries) ==
    IF Len(entries) > 0
    THEN Notice(<<"Extracted ", ToString(Len(entries)), " transcript entries">>, FALSE)
    ELSE Notice(<<"No transcript found on this page">>, TRUE)

CopyNotice(success) ==
    IF success
    THEN Notice(<<"Content copied to clipboard!">>, FALSE)
    ELSE Notice(<<"Failed to copy content">>, TRUE)

\* A slip: the notice made to depend on whether a file was saved.
DownloadNoticeChecked(r) ==
    IF r.saved # <<>>
    THEN Notice(<<"Transcript downloaded!">>, FALSE)
    ELSE Notice(<<"No transcript found on this page">>, TRUE)

DownloadNotice(r) ==
    Notice(<<"Transcript downloaded!">>, FALSE)

SummaryNotice(summary) ==
    Notice(<<"Summary: ", ToString(summary.totalEntries), " entries, ",
             ToString(summary.totalWords), " words">>, FALSE)

CatchNotice(btn, message) == Notice(<<ErrorPrefix(btn), message>>, TRUE)

\* showStatus(message, isError = false)
ShowStatus(notice) ==
    /\ statusDiv' = [textContent |-> notice.message,
                     className |-> IF notice.isError THEN "status error-status"
                                   ELSE "status success-status",
                     display |-> "block"]
    /\ timers' = Append(timers, HideDelay)
    /\ shownFor' = 0

\* The pages the popup is opened on.
PopupDocs ==
    {Document(FALSE, TRUE, <<>>),
     Document(TRUE, TRUE, <<NoContentButton>>),
     Document(TRUE, TRUE, <<HelloButton, WorldButton>>)}

\* DOMContentLoaded: the status is hidden, no handler runs.
InitPopup ==
    /\ doc \in PopupDocs
    /\ ret = NoCall
    /\ clipboard = <<>>
    /\ pending = <<>>
    /\ liveURLs = 0
    /\ statusDiv = HiddenStatus
    /\ timers = <<>>
    /\ handlers = NoHandlers
    /\ shownFor = 0

\* A handler ends: what it got (the injected call's result, or the error it
\* caught) and the notice it shows.
Finish(btn, got, notice) ==
    /\ Len(timers) < MaxTimers
    /\ handlers' = [handlers EXCEPT ![btn] = "idle"]
    /\ ret' = [got EXCEPT !.by = btn]
    /\ ShowStatus(notice)

\* a handler's catch block
Caught(btn, why, message) ==
    /\ Finish(btn, [op |-> "error", by |-> btn, why |-> why], CatchNotice(btn, message))
    /\ UNCHANGED <<doc, clipboard, pending, liveURLs>>

\* the user clicks a button whose handler is not running; the handler
\* awaits chrome.tabs.query
Click ==
    \E btn \in Buttons :
        /\ handlers[btn] = "idle"
        /\ handlers' = [handlers EXCEPT ![btn] = "query"]
        /\ UNCHANGED <<doc, ret, clipboard, pending, liveURLs, statusDiv, timers, shownFor>>

\* chrome.tabs.query resolves with the active tab; the handler awaits executeScript
TabsQueryResolved ==
    \E btn \in Buttons :
        /\ handlers[btn] = "query"
        /\ handlers' = [handlers EXCEPT ![btn] = "inject"]
        /\ UNCHANGED <<doc, ret, clipboard, pending, liveURLs, statusDiv, timers, shownFor>>

\* chrome.tabs.query resolves with no tab: tab.id throws a TypeError
TabsQueryEmpty ==
    \E btn \in Buttons :
        /\ handlers[btn] = "query"
        /\ Caught(btn, "no tab", "Cannot read properties of undefined")

\* chrome.tabs.query rejects
TabsQueryRejected ==
    \E btn \in Buttons :
        /\ handlers[btn] = "query"
        /\ Caught(btn, "query rejected", "query failed")

\* chrome.scripting.executeScript rejects
ExecuteScriptRejected ==
    \E btn \in Buttons :
        /\ handlers[btn] = "inject"
        /\ Caught(btn, "injection rejected", "Cannot access contents of the page")

\* executeScript resolves with extractTranscript()'s result
ExtractResolved ==
    /\ handlers["extractBtn"] = "inject"
    /\ LET entries == ExtractTranscript(doc)
       IN Finish("extractBtn",
                 [op |-> "extractTranscript", by |-> "", args |-> <<>>, value |-> entries],
                 ExtractNotice(entries))
    /\ UNCHANGED <<doc, clipboard, pending, liveURLs>>

\* executeScript resolves with what copyToClipboard(false, ' ') resolved to,
\* the platform having fulfilled or rejected the write
CopyResolved ==
    /\ handlers["copyBtn"] = "inject"
    /\ \E clipboardAPI \in BOOLEAN, fulfilled \in BOOLEAN :
          LET called == CopyToClipboardCall(doc, FALSE, << <<" ">> >>, clipboardAPI)
              r == IF called.settled # "pending" THEN called
                   ELSE IF fulfilled THEN CopyToClipboardResume(called)
                   ELSE CopyToClipboardRejected(called)
          IN /\ r.settled = "fulfilled"
             /\ clipboard' = IF r.write = "fulfilled" THEN r.writeText[1] ELSE clipboard
             /\ Finish("copyBtn",
                       [op |-> "copyToClipboard", by |-> "", phase |-> "settle",
                        args |-> <<FALSE, << <<" ">> >> >>, value |-> r],
                       CopyNotice(r.value[1]))
    /\ UNCHANGED <<doc, pending, liveURLs>>

\* executeScript resolves after downloadTranscript('transcript.txt', false, ' ') ran
DownloadResolved ==
    /\ handlers["downloadBtn"] = "inject"
    /\ LET r == DownloadTranscript(doc, <<"transcript.txt">>, FALSE, << <<" ">> >>)
       IN /\ liveURLs + r.created - r.revoked <= MaxLive
          /\ liveURLs' = liveURLs + r.created - r.revoked
          /\ Finish("downloadBtn",
                    [op |-> "downloadTranscript", by |-> "",
                     args |-> <<<<"transcript.txt">>, FALSE, << <<" ">> >> >>, value |-> r],
                    DownloadNotice(r))
    /\ UNCHANGED <<doc, clipboard, pending>>

\* executeScript resolves with getSummary()'s result
SummaryResolved ==
    /\ handlers["summaryBtn"] = "inject"
    /\ LET summary == GetSummary(doc)
       IN Finish("summaryBtn",
                 [op |-> "getSummary", by |-> "", args |-> <<>>, value |-> summary],
                 SummaryNotice(summary))
    /\ UNCHANGED <<doc, clipboard, pending, liveURLs>>

\* a hide timer is due and its callback runs
TimerFires ==
    /\ timers # <<>>
    /\ timers[1] = 0
    /\ statusDiv' = [statusDiv EXCEPT !.display = "none"]
    /\ timers' = Tail(timers)
    /\ UNCHANGED <<doc, ret, clipboard, pending, liveURLs, handlers, shownFor>>

\* a second passes; a due timer fires first
Tick ==
    /\ \A k \in 1..Len(timers) : timers[k] > 0
    /\ timers' = [k \in 1..Len(timers) |-> timers[k] - 1]
    /\ shownFor' = IF shownFor < HideDelay THEN shownFor + 1 ELSE shownFor
    /\ UNCHANGED <<doc, ret, clipboard, pending, liveURLs, statusDiv, handlers>>

NextPopup ==
    \/ Click
    \/ TabsQueryResolved
    \/ TabsQueryEmpty
    \/ TabsQueryRejected
    \/ ExecuteScriptRejected
    \/ ExtractResolved
    \/ CopyResolved
    \/ DownloadResolved
    \/ SummaryResolved
    \/ TimerFires
    \/ Tick

SpecPopup == InitPopup /\ [][NextPopup]_vars

\* C8: a notice is hidden only when it has been shown for HideDelay seconds.
C8_NoticeShownForDelay ==
    [][(statusDiv.display = "block" /\ statusDiv'.display = "none") =>
          shownFor >= HideDelay]_vars

\* C10: a download click whose lookup and injection resolved shows the
\* success notice, whether or not a file was saved; its error notice comes
\* only from a failed lookup or injection.  An extract or copy click on a
\* page with zero entries shows an error notice.
C10_DownloadNoticeIgnoresOutcome ==
    /\ (ret.op = "downloadTranscript" /\ ret.by = "downloadBtn") =>
          /\ statusDiv.textContent = <<"Transcript downloaded!">>
          /\ statusDiv.className = "status success-status"
    /\ (ret.op # "none" /\ ret.by = "downloadBtn" /\ statusDiv.className = "status error-status") =>
          /\ ret.op = "error"
          /\ ret.why \in {"no tab", "query rejected", "injection rejected"}
    /\ (ret.op = "extractTranscript" /\ ret.by = "extractBtn" /\ ZeroEntries(doc)) =>
          /\ statusDiv.textContent = <<"No transcript found on this page">>
          /\ statusDiv.className = "status error-status"
    /\ (ret.op = "copyToClipboard" /\ ret.by = "copyBtn" /\ ZeroEntries(doc)) =>
          /\ statusDiv.textContent = <<"Failed to copy content">>
          /\ statusDiv.className = "status error-status"

\* C10 case: a download click on a page with zero entries: nothing saved, success shown
C10_Witness ==
    /\ ret.op = "downloadTranscript"
    /\ ret.by = "downloadBtn"
    /\ ZeroEntries(doc)
    /\ ret.value.saved = <<>>
    /\ statusDiv.display = "block"
    /\ statusDiv.className = "status success-status"

====
